---- MODULE Spec2Model ----
(***************************************************************************)
(* Deployment orchestrator of the Multi-Bot Platform                       *)
(* (backend/main.py, backend/docker_manager.py, backend/models.py).        *)
(*                                                                         *)
(* The request handlers are coroutines of one event loop: a handler keeps  *)
(* the loop from its first statement to its next await or to its return.   *)
(* deploy_bot, start_bot, stop_bot and restart_bot contain no await;       *)
(* upload_bot_code awaits once (file.read()), after it has committed the   *)
(* pending record and opened the temporary archive.                        *)
(***************************************************************************)
EXTENDS Integers, Sequences, FiniteSets, TLC

(* ----------------------------- bounds --------------------------------- *)
MaxReqs == 2        \* deploy/upload requests received in one run
NumBots == 2        \* rows of bot_apps

Bots   == 1..NumBots
NoBot  == 0                     \* a bot_id with no row in bot_apps
BotIds == Bots \cup {NoBot}
Reqs   == 1..MaxReqs

NULL == "NULL"                  \* deployments.log is nullable, no default

VARIABLES
  docker_client,   \* TRUE: connected at import; FALSE: docker_client = None
  repo_url,        \* [Bots -> BOOLEAN]  bot.repo_url is set
  codeDir,         \* [Bots -> contents of bot.code_path]
  tmpZip,          \* [Bots -> the file /tmp/bot_{id}_upload.zip]
  images,          \* [image name -> number of the build it is tagged to, 0 = no image]
  containers,      \* [container name -> container]
  deployments,     \* committed rows of the deployments table, id = index
  req,             \* [Reqs -> the handler invocation: locals and position]
  loop,            \* the request that holds the event loop, 0 = idle
  name,            \* [Bots -> bot.name, as the path components it spells]
  last,            \* the last direct call of a docker_manager function
  env_vars,        \* [Bots -> rows of bot_env_vars of the bot, in id order]
  env_req          \* the last update_env_vars request and its response

vars == <<docker_client, repo_url, codeDir, tmpZip, images,
          containers, deployments, req, loop, name, last, env_vars, env_req>>

(* ------------------------- naming scheme ------------------------------ *)
\* one name for every bot
get_container_name_fixed(bot_id) == "bot_1"

get_container_name(bot_id) == "bot_" \o ToString(bot_id)

get_image_name(bot_id) == "bot_" \o ToString(bot_id) \o ":latest"

ContainerNames == {get_container_name(b) : b \in Bots}
ImageNames     == {get_image_name(b) : b \in Bots}

\* bot names, unique by string comparison only: "a", "b" and "a/b"
Names == {<<"a">>, <<"b">>, <<"a", "b">>}

RECURSIVE JoinPath(_)
JoinPath(p) == IF p = <<>> THEN "" ELSE "/" \o p[1] \o JoinPath(Tail(p))

\* code_path = f"/srv/bots/{name}"
code_path(b) == JoinPath(<<"srv", "bots">> \o name[b])

\* the directory of bot b lies inside the directory of bot a
Beneath(b, a) ==
  /\ Len(name[a]) < Len(name[b])
  /\ SubSeq(name[b], 1, Len(name[a])) = name[a]

\* the name assignments, bot 1 being the one called "a"
NameChoices ==
  {f \in [Bots -> Names] :
     /\ f[1] = <<"a">>
     /\ \A b1, b2 \in Bots : b1 # b2 => f[b1] # f[b2]}

(* ------------------------------ values -------------------------------- *)
EmptyDir   == [git |-> FALSE, src |-> "empty", dockerfile |-> "none"]
NoDir      == [git |-> FALSE, src |-> "missing", dockerfile |-> "none"]
NoFile     == [exists |-> FALSE, content |-> "none"]
NoContainer == [status |-> "absent", image |-> 0]

IdleReq == [kind |-> "none", bot |-> NoBot, pc |-> "idle", dep |-> 0,
            logs |-> <<>>, status |-> "none", message |-> "", linked |-> FALSE,
            fetch |-> "none", build |-> "none", relaunch |-> "none",
            steps |-> <<>>, resp |-> 0]

NoEnvReq == [bot |-> NoBot, form |-> <<>>, resp |-> 0]

NoPrev == [op |-> "none", bot |-> NoBot, success |-> FALSE]
NoCall == [op |-> "none", bot |-> NoBot, o |-> "none", success |-> FALSE,
           message |-> "", changed |-> FALSE, prev |-> NoPrev]

\* str(e) of an exception raised by the engine, git or the file system
StrE == "<e>"

RECURSIVE JoinLines(_)
\* "\n".join(logs)
JoinLines(logs) ==
  IF logs = <<>> THEN ""
  ELSE IF Len(logs) = 1 THEN logs[1]
  ELSE logs[1] \o "\n" \o JoinLines(Tail(logs))

(* --------------------- container runtime adapter ---------------------- *)
\* the adapter functions without their "if not docker_client" test
ClientAssumed == FALSE

\* "if not docker_client:" at the head of every adapter function
ClientMissing == ~docker_client

\* stop_bot_container without its "except NotFound" clause
NotFoundIsFailure == FALSE

\* "except NotFound: return True, ..." in stop_bot_container
NotFoundIsSuccess == TRUE

\* run_bot_container without its inner "except NotFound: pass"
NotFoundUncaught == TRUE

\* "except NotFound: pass": no existing container is not an error
NotFoundPropagates == FALSE

get_bot_status(bot_id) ==
  IF ClientMissing THEN "Unknown"
  ELSE LET c == containers[get_container_name(bot_id)] IN
       IF c.status = "absent" THEN "Stopped"
       ELSE IF c.status = "running" THEN "Running"
       ELSE "Stopped (" \o c.status \o ")"

BuildOutcomes == {"ok", "descriptor_error", "build_error"}

\* result of build_bot_image(bot_id, code_path) when the engine behaves as o
build_bot_image(bot_id, o) ==
  LET image_name == get_image_name(bot_id) IN
  IF ClientMissing
  THEN [success |-> FALSE, message |-> "Docker client not available",
        dir |-> codeDir[bot_id], images |-> images]
  ELSE IF o = "descriptor_error"
  THEN [success |-> FALSE, message |-> "Failed to build image: " \o StrE,
        dir |-> codeDir[bot_id], images |-> images]
  ELSE IF o = "build_error"
  THEN [success |-> FALSE, message |-> "Failed to build image: " \o StrE,
        dir |-> [codeDir[bot_id] EXCEPT !.dockerfile = "generated"],
        images |-> images]
  ELSE [success |-> TRUE,
        message |-> "Image built successfully: " \o image_name,
        dir |-> [codeDir[bot_id] EXCEPT !.dockerfile = "generated"],
        images |-> [images EXCEPT ![image_name] = @ + 1]]

StopOutcomes == {"ok", "get_error", "stop_error", "remove_error"}

\* result of stop_bot_container(bot_id) on the containers cs
stop_bot_container(bot_id, cs, o) ==
  LET container_name == get_container_name(bot_id)
      c == cs[container_name] IN
  IF ClientMissing
  THEN [success |-> FALSE, message |-> "Docker client not available",
        containers |-> cs]
  ELSE IF o = "get_error"
  THEN [success |-> FALSE, message |-> "Failed to stop container: " \o StrE,
        containers |-> cs]
  ELSE IF c.status = "absent"
  THEN [success |-> NotFoundIsSuccess,
        message |-> "Container " \o container_name \o " is not running",
        containers |-> cs]
  ELSE IF o = "stop_error"
  THEN [success |-> FALSE, message |-> "Failed to stop container: " \o StrE,
        containers |-> cs]
  ELSE IF o = "remove_error"
  THEN [success |-> FALSE, message |-> "Failed to stop container: " \o StrE,
        containers |-> [cs EXCEPT ![container_name].status = "exited"]]
  ELSE [success |-> TRUE,
        message |-> "Container " \o container_name \o " stopped successfully",
        containers |-> [cs EXCEPT ![container_name] = NoContainer]]

RunOutcomes == {"ok", "get_error", "stop_error", "remove_error",
                "create_error", "start_error"}

\* result of run_bot_container(bot_id, env_vars, start_command)
run_bot_container(bot_id, cs, o) ==
  LET container_name == get_container_name(bot_id)
      image_name == get_image_name(bot_id)
      c == cs[container_name]
      existing == c.status # "absent"
      removed == [cs EXCEPT ![container_name] = NoContainer] IN
  IF ClientMissing
  THEN [success |-> FALSE, message |-> "Docker client not available",
        containers |-> cs]
  ELSE IF o = "get_error"
  THEN [success |-> FALSE, message |-> "Failed to run container: " \o StrE,
        containers |-> cs]
  ELSE IF ~existing /\ NotFoundPropagates
  THEN [success |-> FALSE, message |-> "Failed to run container: " \o StrE,
        containers |-> cs]
  ELSE IF existing /\ o = "stop_error"
  THEN [success |-> FALSE, message |-> "Failed to run container: " \o StrE,
        containers |-> cs]
  ELSE IF existing /\ o = "remove_error"
  THEN [success |-> FALSE, message |-> "Failed to run container: " \o StrE,
        containers |-> [cs EXCEPT ![container_name].status = "exited"]]
  ELSE IF images[image_name] = 0
  THEN [success |-> FALSE, message |-> "Failed to run container: " \o StrE,
        containers |-> removed]
  ELSE IF o = "create_error"
  THEN [success |-> FALSE, message |-> "Failed to run container: " \o StrE,
        containers |-> removed]
  ELSE IF o = "start_error"
  THEN [success |-> FALSE, message |-> "Failed to run container: " \o StrE,
        containers |-> [cs EXCEPT ![container_name] =
                           [status |-> "created", image |-> images[image_name]]]]
  ELSE [success |-> TRUE,
        message |-> "Container " \o container_name \o " started successfully",
        containers |-> [cs EXCEPT ![container_name] =
                           [status |-> "running", image |-> images[image_name]]]]

\* the engine's behaviour during one restart: run is reached only after stop
RestartOutcomes == {<<o1, o2>> \in StopOutcomes \X RunOutcomes :
                      o1 = "ok" \/ o2 = "ok"}

\* restart_bot_container going on to run whatever the stop returned
StopResultIgnored(stop_success) == FALSE

\* "if not stop_success:" in restart_bot_container
StopFailed(stop_success) == ~stop_success

\* result of restart_bot_container(bot_id, env_vars, start_command)
restart_bot_container(bot_id, o1, o2) ==
  LET stop == stop_bot_container(bot_id, containers, o1) IN
  IF StopFailed(stop.success)
  THEN [success |-> FALSE,
        message |-> "Failed to stop container: " \o stop.message,
        containers |-> stop.containers]
  ELSE LET run == run_bot_container(bot_id, stop.containers, o2) IN
       [success |-> run.success, message |-> "Restarted: " \o run.message,
        containers |-> run.containers]

LogsOutcomes == {"ok", "error"}

\* result of get_bot_logs(bot_id, tail)
get_bot_logs(bot_id, o) ==
  LET container_name == get_container_name(bot_id) IN
  IF ClientMissing
  THEN [success |-> FALSE, message |-> "Docker client not available"]
  ELSE IF containers[container_name].status = "absent"
  THEN [success |-> FALSE,
        message |-> "Container " \o container_name \o " not found"]
  ELSE IF o = "error"
  THEN [success |-> FALSE, message |-> "Failed to get logs: " \o StrE]
  ELSE [success |-> TRUE, message |-> "<logs>"]

(* --------------------------- source fetcher --------------------------- *)
FetchOutcomes == {"ok", "failed", "timeout", "error"}

\* result of clone_or_pull_repo(repo_url, code_path) when git behaves as o
clone_or_pull_repo(bot_id, o) ==
  LET dir == codeDir[bot_id] IN
  IF o = "timeout"
  THEN [success |-> FALSE, message |-> "Git operation timed out", dir |-> dir]
  ELSE IF o = "error"
  THEN [success |-> FALSE, message |-> "Git operation failed: " \o StrE,
        dir |-> dir]
  ELSE IF dir.git
  THEN IF o = "ok"
       THEN [success |-> TRUE, message |-> "Successfully pulled latest changes:",
             dir |-> [dir EXCEPT !.src = "repo"]]
       ELSE [success |-> FALSE, message |-> "Git pull failed:", dir |-> dir]
  ELSE IF o = "ok"
       THEN [success |-> TRUE, message |-> "Successfully cloned repository:",
             dir |-> [dir EXCEPT !.git = TRUE, !.src = "repo"]]
       ELSE [success |-> FALSE, message |-> "Git clone failed:", dir |-> dir]

(* ------------------------------ Init ---------------------------------- *)
Init ==
  /\ docker_client \in BOOLEAN
  /\ repo_url \in [Bots -> BOOLEAN]
  /\ codeDir = [b \in Bots |-> EmptyDir]
  /\ tmpZip = [b \in Bots |-> NoFile]
  /\ images = [n \in ImageNames |-> 0]
  /\ containers = [n \in ContainerNames |-> NoContainer]
  /\ deployments = <<>>
  /\ req = [r \in Reqs |-> IdleReq]
  /\ loop = 0
  /\ name \in NameChoices
  /\ last = NoCall
  /\ env_vars = [b \in Bots |-> <<>>]
  /\ env_req = NoEnvReq

(* ----------------------- handlers: shared parts ----------------------- *)
\* the invocation that serves the next request received
NewReq(r) == /\ req[r].pc = "idle"
             /\ \A q \in Reqs : req[q].pc = "idle" => r <= q

\* models.Deployment(bot_id=bot_id, status="pending"); db.add; db.commit
CreateDeployment(b) ==
  Append(deployments, [bot_id |-> b, status |-> "pending", log |-> NULL])

\* db.commit() of the handler's deployment object
Commit(dep, status, log) ==
  [deployments EXCEPT ![dep] = [@ EXCEPT !.status = status, !.log = log]]

\* deploy_bot without its repo_url check
DeployNeverRejects(b) == FALSE

\* raise HTTPException(status_code=400, ...) when bot.repo_url is not set
DeployRejectsNoRepo(b) == ~repo_url[b]

\* the fetch-failure branch without "deployment.status = ..."
StatusLeftPending == "pending"

\* deployment.status written when clone_or_pull_repo fails
StatusOnFetchFailure == "failed"

\* deploy_bot with the build block left out
StepSkipsBuild == "relaunch"

\* the statement deploy_bot reaches after a successful fetch
StepAfterFetch == "build"

\* the build result ignored
BuildResultIgnored(success) == FALSE

\* "if not success:" after build_bot_image
BuildFailed(success) == ~success

\* the failure branch without its raise: the handler falls through
BuildFailureFallsThrough == FALSE

\* the failure branch ends in "raise HTTPException(status_code=500, ...)"
BuildFailureRaises == TRUE

\* the relaunch result ignored
StatusAlwaysSuccess(success) == "success"

\* deployment.status written after restart_bot_container
StatusAfterRelaunch(success) == IF success THEN "success" ELSE "failed"

\* str(e) of the HTTPException raised inside upload_bot_code's try block
HTTPExceptionStr(status_code, detail) == ToString(status_code) \o ": " \o detail

(* --------------------------- deploy_bot ------------------------------- *)
DeployStart(b) ==
  /\ loop = 0
  /\ \E r \in Reqs :
       /\ NewReq(r)
       /\ IF b \notin Bots
          THEN /\ req' = [req EXCEPT ![r] = [IdleReq EXCEPT !.kind = "deploy",
                            !.bot = b, !.pc = "done", !.resp = 404]]
               /\ UNCHANGED <<deployments, loop>>
          ELSE IF DeployRejectsNoRepo(b)
          THEN /\ req' = [req EXCEPT ![r] = [IdleReq EXCEPT !.kind = "deploy",
                            !.bot = b, !.pc = "done", !.resp = 400]]
               /\ UNCHANGED <<deployments, loop>>
          ELSE /\ deployments' = CreateDeployment(b)
               /\ req' = [req EXCEPT ![r] = [IdleReq EXCEPT !.kind = "deploy",
                            !.bot = b, !.pc = "fetch",
                            !.dep = Len(deployments) + 1,
                            !.status = "pending", !.steps = <<"CREATE">>]]
               /\ loop' = r
  /\ UNCHANGED <<docker_client, name, last, env_vars, env_req, repo_url, codeDir, tmpZip,
                 images, containers>>

DeployFetch(r, o) ==
  /\ loop = r /\ req[r].kind = "deploy" /\ req[r].pc = "fetch"
  /\ LET b == req[r].bot
         res == clone_or_pull_repo(b, o)
         logs == Append(req[r].logs, res.message) IN
     /\ codeDir' = [codeDir EXCEPT ![b] = res.dir]
     /\ IF ~res.success
        THEN /\ deployments' = Commit(req[r].dep, StatusOnFetchFailure,
                                      JoinLines(logs))
             /\ req' = [req EXCEPT ![r].logs = logs, ![r].fetch = "fail",
                          ![r].message = res.message,
                          ![r].status = StatusOnFetchFailure,
                          ![r].steps = @ \o <<"FETCH", "FINALIZE">>,
                          ![r].pc = "done", ![r].resp = 500]
             /\ loop' = 0
        ELSE /\ req' = [req EXCEPT ![r].logs = logs, ![r].fetch = "ok",
                          ![r].message = res.message,
                          ![r].steps = Append(@, "FETCH"),
                          ![r].pc = StepAfterFetch]
             /\ UNCHANGED <<deployments, loop>>
  /\ UNCHANGED <<docker_client, name, last, env_vars, env_req, repo_url, tmpZip, images, containers>>

DeployBuild(r, o) ==
  /\ loop = r /\ req[r].kind = "deploy" /\ req[r].pc = "build"
  /\ LET b == req[r].bot
         res == build_bot_image(b, o)
         logs == Append(req[r].logs, res.message)
         rq == [req[r] EXCEPT !.logs = logs, !.message = res.message,
                  !.build = IF res.success THEN "ok" ELSE "fail"] IN
     /\ codeDir' = [codeDir EXCEPT ![b] = res.dir]
     /\ images' = res.images
     /\ IF BuildFailed(res.success)
        THEN /\ deployments' = Commit(req[r].dep, "failed", JoinLines(logs))
             /\ IF BuildFailureRaises
                THEN /\ req' = [req EXCEPT ![r] = [rq EXCEPT !.status = "failed",
                                  !.steps = @ \o <<"BUILD", "FINALIZE">>,
                                  !.pc = "done", !.resp = 500]]
                     /\ loop' = 0
                ELSE /\ req' = [req EXCEPT ![r] = [rq EXCEPT !.status = "failed",
                                  !.steps = @ \o <<"BUILD", "FINALIZE">>,
                                  !.pc = "relaunch"]]
                     /\ UNCHANGED loop
        ELSE /\ req' = [req EXCEPT ![r] = [rq EXCEPT !.steps = Append(@, "BUILD"),
                          !.pc = "relaunch"]]
             /\ UNCHANGED <<deployments, loop>>
  /\ UNCHANGED <<docker_client, name, last, env_vars, env_req, repo_url, tmpZip, containers>>

DeployRelaunch(r, o1, o2) ==
  /\ loop = r /\ req[r].kind = "deploy" /\ req[r].pc = "relaunch"
  /\ LET b == req[r].bot
         res == restart_bot_container(b, o1, o2) IN
     /\ containers' = res.containers
     /\ req' = [req EXCEPT ![r].logs = Append(@, res.message),
                  ![r].message = res.message,
                  ![r].relaunch = IF res.success THEN "ok" ELSE "fail",
                  ![r].status = StatusAfterRelaunch(res.success),
                  ![r].steps = Append(@, "RELAUNCH"),
                  ![r].pc = "finalize"]
  /\ UNCHANGED <<docker_client, name, last, env_vars, env_req, repo_url, codeDir, tmpZip, images,
                 deployments, loop>>

DeployFinalize(r) ==
  /\ loop = r /\ req[r].kind = "deploy" /\ req[r].pc = "finalize"
  /\ deployments' = Commit(req[r].dep, req[r].status, JoinLines(req[r].logs))
  /\ req' = [req EXCEPT ![r].steps = Append(@, "FINALIZE"),
               ![r].pc = "done", ![r].resp = 303]
  /\ loop' = 0
  /\ UNCHANGED <<docker_client, name, last, env_vars, env_req, repo_url, codeDir, tmpZip, images,
                 containers>>

(* ------------------------- upload_bot_code ---------------------------- *)
\* the except clause without "deployment.status = 'failed'"
ExceptKeepsStatus(rq, e) ==
  [rq EXCEPT !.logs = Append(@, "Error: " \o e), !.pc = "finalize"]

\* "except Exception as e": logs.append(f"Error: {str(e)}"); status = "failed"
Except(rq, e) ==
  [rq EXCEPT !.logs = Append(@, "Error: " \o e), !.status = "failed",
             !.pc = "finalize"]

\* open(temp_zip, "wb"): creates the file, or truncates the existing one
OpenTruncate(f) == [exists |-> TRUE, content |-> "empty"]

\* lookup, pending record, open(temp_zip, "wb"), then "await file.read()"
UploadStart(b) ==
  /\ loop = 0
  /\ \E r \in Reqs :
       /\ NewReq(r)
       /\ IF b \notin Bots
          THEN /\ req' = [req EXCEPT ![r] = [IdleReq EXCEPT !.kind = "upload",
                            !.bot = b, !.pc = "done", !.resp = 404]]
               /\ UNCHANGED <<deployments, tmpZip>>
          ELSE /\ deployments' = CreateDeployment(b)
               /\ tmpZip' = [tmpZip EXCEPT ![b] = OpenTruncate(@)]
               /\ req' = [req EXCEPT ![r] = [IdleReq EXCEPT !.kind = "upload",
                            !.bot = b, !.pc = "read",
                            !.dep = Len(deployments) + 1,
                            !.status = "pending", !.linked = TRUE,
                            !.steps = <<"CREATE">>]]
  /\ UNCHANGED <<docker_client, name, last, env_vars, env_req, repo_url, codeDir, images, containers, loop>>

\* resumption after the await: f.write(content), close, first log entry;
\* the write reaches the file at temp_zip unless that path was removed
\* since this handler opened it
UploadSave(r, o) ==
  /\ loop = 0 /\ req[r].kind = "upload" /\ req[r].pc = "read"
  /\ LET b == req[r].bot IN
     IF o = "error"
     THEN /\ req' = [req EXCEPT ![r] = Except(@, StrE)]
          /\ UNCHANGED tmpZip
     ELSE /\ tmpZip' = IF req[r].linked
                       THEN [tmpZip EXCEPT ![b].content = "archive"]
                       ELSE tmpZip
          /\ req' = [req EXCEPT ![r].logs = Append(@, "Uploaded file: <filename> (<n> bytes)"),
                       ![r].steps = Append(@, "SAVE"),
                       ![r].pc = "clear"]
  /\ loop' = r
  /\ UNCHANGED <<docker_client, name, last, env_vars, env_req, repo_url, codeDir, images,
                 containers, deployments>>

\* the clearing step without the rmtree
DirLeftAsIs(b) == codeDir

\* shutil.rmtree(bot.code_path); os.makedirs(bot.code_path): everything at
\* and below the path goes, the path itself is created anew
rmtree_makedirs(b) ==
  [x \in Bots |-> IF x = b THEN EmptyDir
                  ELSE IF Beneath(x, b) THEN NoDir
                  ELSE codeDir[x]]

UploadClear(r, o) ==
  /\ loop = r /\ req[r].kind = "upload" /\ req[r].pc = "clear"
  /\ LET b == req[r].bot IN
     IF o = "error"
     THEN /\ req' = [req EXCEPT ![r] = Except(@, StrE)]
          /\ UNCHANGED codeDir
     ELSE /\ codeDir' = rmtree_makedirs(b)
          /\ req' = [req EXCEPT ![r].steps = Append(@, "CLEAR"),
                       ![r].pc = "extract"]
  /\ UNCHANGED <<docker_client, name, last, env_vars, env_req, repo_url, tmpZip, images,
                 containers, deployments, loop>>

\* the handles other suspended uploads hold on the removed temp_zip
Unlink(b, r) ==
  [q \in Reqs |-> IF q # r /\ req[q].bot = b /\ req[q].pc = "read"
                  THEN [req[q] EXCEPT !.linked = FALSE] ELSE req[q]]

\* zipfile.ZipFile(temp_zip).extractall(bot.code_path); os.remove(temp_zip)
UploadExtract(r, o) ==
  /\ loop = r /\ req[r].kind = "upload" /\ req[r].pc = "extract"
  /\ LET b == req[r].bot
         f == tmpZip[b] IN
     IF ~f.exists \/ f.content # "archive" \/ o = "bad_zip"
     THEN \* FileNotFoundError or BadZipFile, before anything is extracted
          /\ req' = [req EXCEPT ![r] = Except(@, StrE)]
          /\ UNCHANGED <<codeDir, tmpZip>>
     ELSE IF o = "error"
     THEN /\ req' = [req EXCEPT ![r] = Except(@, StrE)]
          /\ codeDir' = [codeDir EXCEPT ![b].src = "partial"]
          /\ UNCHANGED tmpZip
     ELSE /\ codeDir' = [codeDir EXCEPT ![b].src = "archive"]
          /\ tmpZip' = [tmpZip EXCEPT ![b] = NoFile]
          /\ req' = [Unlink(b, r) EXCEPT
                       ![r].logs = Append(@, "Extracted to: " \o code_path(b)),
                       ![r].steps = Append(@, "EXTRACT"),
                       ![r].pc = "build"]
  /\ UNCHANGED <<docker_client, name, last, env_vars, env_req, repo_url, images, containers,
                 deployments, loop>>

UploadBuild(r, o) ==
  /\ loop = r /\ req[r].kind = "upload" /\ req[r].pc = "build"
  /\ LET b == req[r].bot
         res == build_bot_image(b, o)
         logs == Append(req[r].logs, res.message)
         rq == [req[r] EXCEPT !.logs = logs, !.message = res.message,
                  !.build = IF res.success THEN "ok" ELSE "fail"] IN
     /\ codeDir' = [codeDir EXCEPT ![b] = res.dir]
     /\ images' = res.images
     /\ IF BuildFailed(res.success)
        THEN \* commit, then raise HTTPException(500) inside the try block:
             \* the handler's own "except Exception" catches it
             /\ deployments' = Commit(req[r].dep, "failed", JoinLines(logs))
             /\ IF BuildFailureRaises
                THEN req' = [req EXCEPT ![r] =
                               Except([rq EXCEPT !.status = "failed",
                                          !.steps = @ \o <<"BUILD", "FINALIZE">>],
                                      HTTPExceptionStr(500, res.message))]
                ELSE req' = [req EXCEPT ![r] = [rq EXCEPT !.status = "failed",
                               !.steps = @ \o <<"BUILD", "FINALIZE">>,
                               !.pc = "relaunch"]]
        ELSE /\ req' = [req EXCEPT ![r] = [rq EXCEPT !.steps = Append(@, "BUILD"),
                          !.pc = "relaunch"]]
             /\ UNCHANGED deployments
  /\ UNCHANGED <<docker_client, name, last, env_vars, env_req, repo_url, tmpZip, containers, loop>>

UploadRelaunch(r, o1, o2) ==
  /\ loop = r /\ req[r].kind = "upload" /\ req[r].pc = "relaunch"
  /\ LET b == req[r].bot
         res == restart_bot_container(b, o1, o2) IN
     /\ containers' = res.containers
     /\ req' = [req EXCEPT ![r].logs = Append(@, res.message),
                  ![r].message = res.message,
                  ![r].relaunch = IF res.success THEN "ok" ELSE "fail",
                  ![r].status = StatusAfterRelaunch(res.success),
                  ![r].steps = Append(@, "RELAUNCH"),
                  ![r].pc = "finalize"]
  /\ UNCHANGED <<docker_client, name, last, env_vars, env_req, repo_url, codeDir, tmpZip, images,
                 deployments, loop>>

\* deployment.log = "\n".join(logs); db.commit(); return RedirectResponse
UploadFinalize(r) ==
  /\ loop = r /\ req[r].kind = "upload" /\ req[r].pc = "finalize"
  /\ deployments' = Commit(req[r].dep, req[r].status, JoinLines(req[r].logs))
  /\ req' = [req EXCEPT ![r].steps = Append(@, "FINALIZE"),
               ![r].pc = "done", ![r].resp = 303]
  /\ loop' = 0
  /\ UNCHANGED <<docker_client, name, last, env_vars, env_req, repo_url, codeDir, tmpZip, images,
                 containers>>

(* ------------------- start_bot, stop_bot, restart_bot ----------------- *)
\* start_bot going through a build of the image as well
start_bot_rebuilding(b, o) ==
  /\ loop = 0
  /\ images' = build_bot_image(b, "ok").images
  /\ containers' = run_bot_container(b, containers, o).containers
  /\ UNCHANGED <<docker_client, name, last, env_vars, env_req, repo_url, codeDir, tmpZip,
                 deployments, req, loop>>

start_bot(b, o) ==
  /\ loop = 0
  /\ containers' = run_bot_container(b, containers, o).containers
  /\ UNCHANGED <<docker_client, name, last, env_vars, env_req, repo_url, codeDir, tmpZip, images,
                 deployments, req, loop>>

stop_bot(b, o) ==
  /\ loop = 0
  /\ containers' = stop_bot_container(b, containers, o).containers
  /\ UNCHANGED <<docker_client, name, last, env_vars, env_req, repo_url, codeDir, tmpZip, images,
                 deployments, req, loop>>

restart_bot(b, o1, o2) ==
  /\ loop = 0
  /\ containers' = restart_bot_container(b, o1, o2).containers
  /\ UNCHANGED <<docker_client, name, last, env_vars, env_req, repo_url, codeDir, tmpZip, images,
                 deployments, req, loop>>

(* ------------------------------ Next ---------------------------------- *)
DeployStep(r) ==
  \/ \E o \in FetchOutcomes : DeployFetch(r, o)
  \/ \E o \in BuildOutcomes : DeployBuild(r, o)
  \/ \E o \in RestartOutcomes : DeployRelaunch(r, o[1], o[2])
  \/ DeployFinalize(r)

UploadStep(r) ==
  \/ \E o \in {"ok", "error"} : UploadSave(r, o)
  \/ \E o \in {"ok", "error"} : UploadClear(r, o)
  \/ \E o \in {"ok", "bad_zip", "error"} : UploadExtract(r, o)
  \/ \E o \in BuildOutcomes : UploadBuild(r, o)
  \/ \E o \in RestartOutcomes : UploadRelaunch(r, o[1], o[2])
  \/ UploadFinalize(r)

HandlerStep == \E r \in Reqs : DeployStep(r) \/ UploadStep(r)

Lifecycle ==
  \E b \in Bots :
    \/ \E o \in RunOutcomes : start_bot(b, o)
    \/ \E o \in StopOutcomes : stop_bot(b, o)
    \/ \E o \in RestartOutcomes : restart_bot(b, o[1], o[2])

Receive ==
  \E b \in BotIds :
    \/ DeployStart(b)
    \/ UploadStart(b)

Next == Receive \/ HandlerStep \/ Lifecycle

Spec == Init /\ [][Next]_vars

\* every started handler runs on: the event loop resumes a ready coroutine
FairSpec == Spec /\ WF_vars(HandlerStep)

(* -------------- the adapter functions called one by one --------------- *)
MaxBuilds == 1      \* successful builds of one bot's image

\* a code directory holding sources, with or without a Dockerfile of its own
SourceDirs == {[git |-> FALSE, src |-> "archive", dockerfile |-> d] :
                 d \in {"none", "custom"}}

AdapterInit ==
  /\ docker_client \in BOOLEAN
  /\ repo_url = [b \in Bots |-> FALSE]
  /\ codeDir \in [Bots -> SourceDirs]
  /\ tmpZip = [b \in Bots |-> NoFile]
  /\ images = [n \in ImageNames |-> 0]
  /\ containers = [n \in ContainerNames |-> NoContainer]
  /\ deployments = <<>>
  /\ req = [r \in Reqs |-> IdleReq]
  /\ loop = 0
  /\ name = [b \in Bots |-> IF b = 1 THEN <<"a">> ELSE <<"b">>]
  /\ last = NoCall
  /\ env_vars = [b \in Bots |-> <<>>]
  /\ env_req = NoEnvReq

\* the call just made, and the one before it
Called(op, b, o, res, changed) ==
  [op |-> op, bot |-> b, o |-> o, success |-> res.success,
   message |-> res.message, changed |-> changed,
   prev |-> [op |-> last.op, bot |-> last.bot, success |-> last.success]]

CallBuild(b, o) ==
  /\ images[get_image_name(b)] < MaxBuilds
  /\ LET res == build_bot_image(b, o) IN
     /\ codeDir' = [codeDir EXCEPT ![b] = res.dir]
     /\ images' = res.images
     /\ last' = Called("build", b, o, res, res.images # images)
  /\ UNCHANGED <<docker_client, name, env_vars, env_req, repo_url, tmpZip, containers,
                 deployments, req, loop>>

CallRun(b, o) ==
  /\ LET res == run_bot_container(b, containers, o) IN
     /\ containers' = res.containers
     /\ last' = Called("run", b, o, res, res.containers # containers)
  /\ UNCHANGED <<docker_client, name, env_vars, env_req, repo_url, codeDir, tmpZip, images,
                 deployments, req, loop>>

CallStop(b, o) ==
  /\ LET res == stop_bot_container(b, containers, o) IN
     /\ containers' = res.containers
     /\ last' = Called("stop", b, o, res, res.containers # containers)
  /\ UNCHANGED <<docker_client, name, env_vars, env_req, repo_url, codeDir, tmpZip, images,
                 deployments, req, loop>>

CallRestart(b, o1, o2) ==
  /\ LET res == restart_bot_container(b, o1, o2) IN
     /\ containers' = res.containers
     /\ last' = Called("restart", b, o1 \o "/" \o o2, res,
                       res.containers # containers)
  /\ UNCHANGED <<docker_client, name, env_vars, env_req, repo_url, codeDir, tmpZip, images,
                 deployments, req, loop>>

CallLogs(b, o) ==
  /\ last' = Called("logs", b, o, get_bot_logs(b, o), FALSE)
  /\ UNCHANGED <<docker_client, name, env_vars, env_req, repo_url, codeDir, tmpZip, images,
                 containers, deployments, req, loop>>

AdapterNext ==
  \E b \in Bots :
    \/ \E o \in BuildOutcomes : CallBuild(b, o)
    \/ \E o \in RunOutcomes : CallRun(b, o)
    \/ \E o \in StopOutcomes : CallStop(b, o)
    \/ \E o \in RestartOutcomes : CallRestart(b, o[1], o[2])
    \/ \E o \in LogsOutcomes : CallLogs(b, o)

AdapterSpec == AdapterInit /\ [][AdapterNext]_vars

(* --------------------------- update_env_vars -------------------------- *)
MaxRows == 2        \* rows env_key_i / env_value_i of one submitted form

\* texts of an env_key_i field
RawKeys == {"", " A", "A", "B"}

\* texts of an env_value_i field; NULL: the form has no such field
RawValues == {NULL, "1"}

\* str.strip() on the texts above
strip(t) == IF t = " A" THEN "A" ELSE t

Forms == [1..MaxRows -> [key : RawKeys, value : RawValues]]

\* "if value and value.strip() and value_key in form_data"
Accepted(row) ==
  /\ row.key # "" /\ strip(row.key) # ""
  /\ row.value # NULL

RECURSIVE Inserted(_)
\* the rows db.add()ed for the form, in the order of its fields
Inserted(form) ==
  IF form = <<>> THEN <<>>
  ELSE LET row == form[1] IN
       (IF Accepted(row)
        THEN <<[key |-> strip(row.key), value |-> row.value]>>
        ELSE <<>>) \o Inserted(Tail(form))

\* lookup (404 before the form is read), "await request.form()", delete of
\* the bot's rows, inserts, commit
update_env_vars(b, form) ==
  /\ IF b \notin Bots
     THEN /\ env_req' = [bot |-> b, form |-> <<>>, resp |-> 404]
          /\ UNCHANGED env_vars
     ELSE /\ env_vars' = [env_vars EXCEPT ![b] = Inserted(form)]
          /\ env_req' = [bot |-> b, form |-> form, resp |-> 303]
  /\ UNCHANGED <<docker_client, name, last, repo_url, codeDir, tmpZip, images,
                 containers, deployments, req, loop>>

EnvInit ==
  /\ docker_client = TRUE
  /\ repo_url = [b \in Bots |-> FALSE]
  /\ codeDir = [b \in Bots |-> EmptyDir]
  /\ tmpZip = [b \in Bots |-> NoFile]
  /\ images = [n \in ImageNames |-> 0]
  /\ containers = [n \in ContainerNames |-> NoContainer]
  /\ deployments = <<>>
  /\ req = [r \in Reqs |-> IdleReq]
  /\ loop = 0
  /\ name = [b \in Bots |-> IF b = 1 THEN <<"a">> ELSE <<"b">>]
  /\ last = NoCall
  /\ env_vars = [b \in Bots |-> <<>>]
  /\ env_req = NoEnvReq

EnvNext == \E b \in BotIds, form \in Forms : update_env_vars(b, form)

EnvSpec == EnvInit /\ [][EnvNext]_vars


(* ======================= properties of the orchestrator =============== *)
Started(r)  == req[r].dep # 0
InFlight(r) == Started(r) /\ req[r].pc # "done"
Record(r)   == deployments[req[r].dep]
DepIds      == 1..Len(deployments)

\* C1: a deploy trigger received while a deployment of the same bot is in
\* flight is refused, so no two deployments of one bot are in flight together
\* and their fetch/build/relaunch steps cannot interleave.
C1_OneInFlightPerBot ==
  \A r1, r2 \in Reqs :
    (r1 # r2 /\ InFlight(r1) /\ InFlight(r2)) => req[r1].bot # req[r2].bot

\* C2: every step a deployment takes at or after a failed build leaves all
\* containers as they were, so a bot that was Running still is when the
\* deployment finalizes.
C2_FailedBuildKeepsContainer ==
  [][\A r \in Reqs :
       (req'[r] # req[r] /\ req'[r].build = "fail")
         => /\ containers' = containers
            /\ \A b \in Bots : get_bot_status(b)' = get_bot_status(b)]_vars

\* C2 witness: a deployment whose build has just failed, about to finalize,
\* for a bot whose container is running.
C2_Witness ==
  \E r \in Reqs : /\ req[r].build = "fail"
                  /\ req[r].pc = "finalize"
                  /\ get_bot_status(req[r].bot) = "Running"

\* C3: a record is created pending; its status changes only from pending to
\* success or failed; a success or failed status never changes again.
C3_StatusWriteOnce ==
  [][/\ \A d \in DepIds :
          /\ deployments[d].status # "pending"
               => deployments'[d].status = deployments[d].status
          /\ deployments'[d].status # deployments[d].status
               => deployments'[d].status \in {"success", "failed"}
     /\ \A d \in 1..Len(deployments') :
          d > Len(deployments) => deployments'[d].status = "pending"]_vars

\* C3 witness: a record committed as failed has been written a second time
\* (upload_bot_code after a failed build), its status still failed.
C3_Witness ==
  \E r \in Reqs : /\ req[r].kind = "upload" /\ req[r].pc = "done"
                  /\ req[r].build = "fail"
                  /\ Record(r).status = "failed"

\* C4: a pending record has no transcript, and the transcript of a record
\* committed as success or failed is never changed by a later write.
C4_TranscriptFrozen ==
  [][\A d \in DepIds :
       /\ deployments[d].status = "pending" => deployments[d].log = NULL
       /\ deployments[d].status # "pending"
            => deployments'[d].log = deployments[d].log]_vars

\* C5: every record created pending is eventually committed as success or
\* failed, and no record is pending once its handler has returned.
C5_RunsToTerminal ==
  /\ [](\A r \in Reqs :
          (Started(r) /\ req[r].pc = "done") => Record(r).status # "pending")
  /\ \A d \in Reqs :
       (Len(deployments) >= d /\ deployments[d].status = "pending")
         ~> (Len(deployments) >= d /\ deployments[d].status # "pending")

\* C5 witness: a handler that has returned after one of its steps failed or
\* raised, its record committed as failed.
C5_Witness ==
  \E r \in Reqs : /\ Started(r) /\ req[r].pc = "done"
                  /\ req[r].build # "ok"
                  /\ Record(r).status = "failed"

\* C6: with the runtime connection unavailable a trigger creates no record
\* and performs no fetch, code-directory change or build.
C6_UnavailableShortCircuits ==
  ~docker_client =>
    /\ deployments = <<>>
    /\ \A b \in Bots : codeDir[b] = EmptyDir
    /\ \A r \in Reqs : req[r].fetch = "none" /\ req[r].build = "none"

BuildErrors == {"Docker client not available", "Failed to build image: " \o StrE}

\* texts clone_or_pull_repo returns with success = True
FetchConfirmations == {"Successfully cloned repository:",
                       "Successfully pulled latest changes:"}

\* texts restart_bot_container returns with success = False
RelaunchErrors == {"Failed to stop container: Failed to stop container: " \o StrE,
                   "Restarted: Failed to run container: " \o StrE}

\* the log entries a handler has made before it calls build_bot_image
IsStepOutput(r, pre) ==
  IF req[r].kind = "deploy"
  THEN Len(pre) = 1 /\ pre[1] \in FetchConfirmations
  ELSE pre = <<"Uploaded file: <filename> (<n> bytes)",
               "Extracted to: " \o code_path(req[r].bot)>>

\* C8: when build_bot_image fails, in deploy_bot and in upload_bot_code, the
\* record is committed failed straight from pending, its transcript begins
\* with the preceding step output followed by the build error, and
\* restart_bot_container is never invoked for that deployment.
C8_BuildFailureAborts ==
  \A r \in Reqs :
    req[r].build = "fail" =>
      LET n == IF req[r].kind = "deploy" THEN 2 ELSE 3
          logs == req[r].logs IN
      /\ req[r].pc \in {"finalize", "done"}
      /\ req[r].relaunch = "none"
      /\ \A i \in 1..Len(req[r].steps) : req[r].steps[i] # "RELAUNCH"
      /\ Record(r).status = "failed"
      /\ Len(logs) >= n
      /\ IsStepOutput(r, SubSeq(logs, 1, n - 1))
      /\ logs[n] \in BuildErrors
      /\ \E k \in n..Len(logs) : Record(r).log = JoinLines(SubSeq(logs, 1, k))

\* C8 witness: a git deployment that returned after its build failed.
C8_Witness ==
  \E r \in Reqs : /\ req[r].kind = "deploy" /\ req[r].pc = "done"
                  /\ req[r].build = "fail"
                  /\ Record(r).log = "Successfully cloned repository:\n"
                                       \o "Failed to build image: " \o StrE

\* C9: a finished deployment's record is success exactly when every step it
\* performed returned success; a failed relaunch, a failure to stop the old
\* container included, gives failed with the relaunch message in the
\* transcript.
C9_StatusReflectsSteps ==
  \A r \in Reqs :
    (Started(r) /\ req[r].pc = "done") =>
      /\ Record(r).status \in {"success", "failed"}
      /\ Record(r).status = "success"
           <=> /\ req[r].kind = "deploy" => req[r].fetch = "ok"
               /\ req[r].fetch # "fail"
               /\ req[r].build = "ok"
               /\ req[r].relaunch = "ok"
      /\ req[r].relaunch = "fail"
           => /\ Record(r).status = "failed"
              /\ req[r].logs[Len(req[r].logs)] \in RelaunchErrors
              /\ Record(r).log = JoinLines(req[r].logs)

\* C9 witness: a deployment finalized as failed because the old container
\* could not be stopped.
C9_Witness ==
  \E r \in Reqs :
    /\ Started(r) /\ req[r].pc = "done" /\ req[r].relaunch = "fail"
    /\ req[r].message = "Failed to stop container: Failed to stop container: " \o StrE
    /\ Record(r).status = "failed"

DeployChain == <<"CREATE", "FETCH", "BUILD", "RELAUNCH">>
DeployPcs   == <<"fetch", "build", "relaunch", "finalize">>

IsPrefix(s, t) == Len(s) <= Len(t) /\ SubSeq(t, 1, Len(s)) = s

\* C10: the steps of a git deployment are taken in the order CREATE, FETCH,
\* BUILD, RELAUNCH, FINALIZE, none twice and none out of turn, and a
\* successful one has taken all five and its transcript is the clone or pull
\* confirmation, the build confirmation and the start confirmation.
C10_LinearOrder ==
  \A r \in Reqs :
    (req[r].kind = "deploy" /\ Started(r)) =>
      LET steps == req[r].steps
          b == req[r].bot IN
      /\ IF req[r].pc = "done"
         THEN /\ steps[Len(steps)] = "FINALIZE"
              /\ IsPrefix(SubSeq(steps, 1, Len(steps) - 1), DeployChain)
              /\ Len(steps) >= 3
         ELSE /\ IsPrefix(steps, DeployChain)
              /\ req[r].pc = DeployPcs[Len(steps)]
      /\ (req[r].pc = "done" /\ Record(r).status = "success")
           => /\ steps = DeployChain \o <<"FINALIZE">>
              /\ \E f \in FetchConfirmations :
                   Record(r).log = JoinLines(<<f,
                     "Image built successfully: " \o get_image_name(b),
                     "Restarted: Container " \o get_container_name(b)
                        \o " started successfully">>)

\* C10 witness: a git deployment finalized as success.
C10_Witness ==
  \E r \in Reqs : /\ req[r].kind = "deploy" /\ req[r].pc = "done"
                  /\ Started(r)
                  /\ Record(r).status = "success"

\* every text clone_or_pull_repo returns
FetchMessages == FetchConfirmations \cup
  {"Git pull failed:", "Git clone failed:", "Git operation timed out",
   "Git operation failed: " \o StrE}

UploadChain == <<"CREATE", "SAVE", "CLEAR", "EXTRACT", "BUILD", "RELAUNCH">>

Without(s, x) == SelectSeq(s, LAMBDA e : e # x)

\* C11: upload_bot_code never calls clone_or_pull_repo and its transcript has
\* no fetch entry; it takes its steps in the order save, clear, extract,
\* build, relaunch; and the archive is expanded into a code directory that
\* the handler has just emptied entirely.
C11_UploadClearsThenExpands ==
  /\ [](\A r \in Reqs : req[r].kind = "upload" =>
          /\ req[r].fetch = "none"
          /\ \A i \in 1..Len(req[r].logs) : req[r].logs[i] \notin FetchMessages
          /\ IsPrefix(Without(req[r].steps, "FINALIZE"), UploadChain))
  /\ [][\A r \in Reqs :
          (/\ req[r].kind = "upload"
           /\ Len(req'[r].steps) = Len(req[r].steps) + 1
           /\ req'[r].steps[Len(req'[r].steps)] = "EXTRACT")
            => /\ codeDir[req[r].bot] = EmptyDir
               /\ codeDir'[req[r].bot] = [EmptyDir EXCEPT !.src = "archive"]]_vars

\* C11 witness: an upload deployment finalized as success for a bot whose
\* code directory held a cloned repository before: nothing of it is left.
C11_Witness ==
  \E r, q \in Reqs :
    /\ req[r].kind = "upload" /\ req[r].pc = "done" /\ Started(r)
    /\ Record(r).status = "success"
    /\ req[q].kind = "deploy" /\ req[q].bot = req[r].bot
    /\ req[q].fetch = "ok" /\ req[q].dep < req[r].dep
    /\ codeDir[req[r].bot] = [git |-> FALSE, src |-> "archive",
                              dockerfile |-> "generated"]

\* position of the build message in the handler's logs
BuildEntry(r) == IF req[r].kind = "deploy" THEN 2 ELSE 3

\* the log entries from the build message on
TailOf(r) == SubSeq(req[r].logs, BuildEntry(r), Len(req[r].logs))

\* number of db.commit() calls that wrote status and log of the record
Writes(r) == Len(SelectSeq(req[r].steps, LAMBDA e : e = "FINALIZE"))

\* C12: a deploy_bot call and an upload_bot_code call that both reached the
\* build, with the same build result and the same relaunch result, end with
\* the same record status, the same transcript entries from the build on, the
\* same number of writes of the record and the same response.
C12_SharedTail ==
  \A r1, r2 \in Reqs :
    (/\ req[r1].kind = "deploy" /\ req[r1].pc = "done" /\ req[r1].build # "none"
     /\ req[r2].kind = "upload" /\ req[r2].pc = "done" /\ req[r2].build # "none"
     /\ req[r1].build = req[r2].build
     /\ req[r1].relaunch = req[r2].relaunch
     /\ TailOf(r1)[1] = TailOf(r2)[1]
     /\ req[r1].relaunch # "none" => TailOf(r1)[2] = TailOf(r2)[2])
      => /\ Record(r1).status = Record(r2).status
         /\ TailOf(r1) = TailOf(r2)
         /\ Writes(r1) = Writes(r2)
         /\ req[r1].resp = req[r2].resp

\* what the caller of a finished deploy_bot or upload_bot_code call receives:
\* the RedirectResponse to the bot's page, or the HTTPException raised
Response(r) ==
  IF req[r].resp = 303
  THEN [status_code |-> 303, location |-> "/bots/" \o ToString(req[r].bot)]
  ELSE IF req[r].resp = 404
  THEN [status_code |-> 404, detail |-> "Bot not found"]
  ELSE IF req[r].resp = 400
  THEN [status_code |-> 400, detail |-> "No repository URL configured"]
  ELSE [status_code |-> req[r].resp, detail |-> req[r].message]

\* C13: every finished trigger either created exactly one record and its
\* caller received that record's identifier, or was rejected with NotFound
\* (404) or Conflict (409) having created no record and performed no fetch,
\* build or runtime operation.
C13_TriggerAnswered ==
  /\ Len(deployments) = Cardinality({r \in Reqs : Started(r)})
  /\ \A r \in Reqs :
       (req[r].kind # "none" /\ req[r].pc = "done") =>
         \/ /\ Started(r)
            /\ Record(r).bot_id = req[r].bot
            /\ \A q \in Reqs : q # r => req[q].dep # req[r].dep
            /\ "deployment_id" \in DOMAIN Response(r)
            /\ Response(r).deployment_id = req[r].dep
         \/ /\ ~Started(r)
            /\ Response(r).status_code \in {404, 409}
            /\ req[r].fetch = "none" /\ req[r].build = "none"
            /\ req[r].relaunch = "none"


(* ================== properties of the adapter functions =============== *)
\* the container of the bot the last call was about
LastContainer == containers[get_container_name(last.bot)]

\* C14: with the engine connected and serving the request, stop_bot_container
\* returns success and leaves the bot without a container; on a bot that
\* never had a container, and again right after a successful stop of the
\* same bot, it returns success without changing any container.
C14_StopIdempotent ==
  (docker_client /\ last.op = "stop" /\ last.o = "ok") =>
    /\ last.success
    /\ LastContainer = NoContainer
    /\ last.prev.op = "none" => ~last.changed
    /\ (last.prev.op = "stop" /\ last.prev.bot = last.bot /\ last.prev.success)
         => ~last.changed

\* C14 witness: the second of two successful stops of the same bot.
C14_Witness ==
  /\ docker_client
  /\ last.op = "stop" /\ last.o = "ok" /\ last.success
  /\ last.prev.op = "stop" /\ last.prev.bot = last.bot /\ last.prev.success
  /\ images[get_image_name(last.bot)] > 0

\* C15: with the engine connected and serving the request and the bot's
\* image built, run_bot_container returns success and leaves the bot's
\* container running on that image, whatever container the bot had before;
\* so do two calls in a row.
C15_RunIdempotent ==
  (/\ docker_client /\ last.op = "run" /\ last.o = "ok"
   /\ images[get_image_name(last.bot)] > 0) =>
    /\ last.success
    /\ LastContainer = [status |-> "running",
                        image |-> images[get_image_name(last.bot)]]
    /\ (last.prev.op = "run" /\ last.prev.bot = last.bot /\ last.prev.success)
         => ~last.changed

\* C15 witness: the second of two successful runs of the same bot.
C15_Witness ==
  /\ last.op = "run" /\ last.success
  /\ last.prev.op = "run" /\ last.prev.bot = last.bot /\ last.prev.success
  /\ LastContainer.status = "running"

\* C16: get_bot_status returns Unknown exactly when the connection is
\* missing, and returns the same value for a bot without a container as for
\* a bot whose container has exited.
C16_StoppedUniform ==
  /\ \A b \in Bots : get_bot_status(b) = "Unknown" <=> ~docker_client
  /\ \A b1, b2 \in Bots :
       (/\ docker_client
        /\ containers[get_container_name(b1)].status = "absent"
        /\ containers[get_container_name(b2)].status = "exited")
         => get_bot_status(b1) = get_bot_status(b2)

\* C17: docker_client never changes; while it is missing, get_bot_status
\* returns Unknown, every build, run, stop, restart and logs call returns
\* failure, and no image and no container exists or changes.
C17_UnavailableForever ==
  /\ [][docker_client' = docker_client]_vars
  /\ [](~docker_client =>
          /\ \A b \in Bots : get_bot_status(b) = "Unknown"
          /\ last.op # "none" => (~last.success /\ ~last.changed)
          /\ \A n \in ImageNames : images[n] = 0
          /\ \A n \in ContainerNames : containers[n] = NoContainer)

\* C17 witness: a stop and then a restart called without a connection.
C17_Witness ==
  /\ ~docker_client
  /\ last.op = "restart" /\ last.prev.op = "stop"
  /\ last.message = "Failed to stop container: Docker client not available"

\* C18: build_bot_image leaves a Dockerfile that the code directory already
\* holds as it is, and writes the default one when there is none.
C18_DescriptorKept ==
  [][\A b \in Bots :
       /\ codeDir[b].dockerfile = "custom" => codeDir'[b].dockerfile = "custom"
       /\ (/\ codeDir[b].dockerfile = "none"
           /\ last'.op = "build" /\ last'.bot = b /\ last'.success
           /\ images'[get_image_name(b)] # images[get_image_name(b)])
            => codeDir'[b].dockerfile = "generated"]_vars


(* ===================== properties across bots ========================= *)
\* the step is taken by a handler call for bot a, or by no deploy/upload call
Acting(a) == \A r \in Reqs : req'[r] # req[r] => req'[r].bot = a

\* the step leaves code directory, image, container and records of b alone
Untouched(b) ==
  /\ codeDir'[b] = codeDir[b]
  /\ images'[get_image_name(b)] = images[get_image_name(b)]
  /\ containers'[get_container_name(b)] = containers[get_container_name(b)]
  /\ \A d \in DepIds :
       deployments[d].bot_id = b => deployments'[d] = deployments[d]
  /\ \A d \in 1..Len(deployments') :
       d > Len(deployments) => deployments'[d].bot_id # b

\* C19: every step of a deployment, an upload deployment or a lifecycle call
\* for one bot leaves the code directory, image, container and deployment
\* records of every other bot unchanged.
C19_BotsIndependent ==
  [][\E a \in BotIds :
       /\ Acting(a)
       /\ \A b \in Bots \ {a} : Untouched(b)]_vars

\* C20: a step of start_bot, stop_bot or restart_bot (a step by no deploy or
\* upload call) leaves the deployment records, the code directories, the
\* temporary archives and the images as they are, and changes the container
\* of at most one bot.
C20_LifecycleOnlyContainer ==
  [][req' = req =>
       /\ deployments' = deployments
       /\ codeDir' = codeDir
       /\ tmpZip' = tmpZip
       /\ images' = images
       /\ \E a \in Bots :
            \A b \in Bots \ {a} :
              containers'[get_container_name(b)]
                = containers[get_container_name(b)]]_vars

\* C20 witness: a bot whose only deployments succeeded and are all finished,
\* and whose container has since been stopped and removed: its records,
\* image and code directory are as the deployment left them.
C20_Witness ==
  \E b \in Bots :
    /\ containers[get_container_name(b)] = NoContainer
    /\ images[get_image_name(b)] > 0
    /\ codeDir[b].dockerfile = "generated"
    /\ \E d \in DepIds : deployments[d].bot_id = b
    /\ \A d \in DepIds :
         deployments[d].bot_id = b => deployments[d].status = "success"


(* ================== properties of the failure paths =================== *)
\* C23: when clone_or_pull_repo returns failure, deploy_bot commits the
\* record as failed with the fetch message as its whole transcript and
\* returns without calling build_bot_image or restart_bot_container; the
\* failing step leaves every image and container as it was.
C23_FetchFailureAborts ==
  /\ [](\A r \in Reqs : req[r].fetch = "fail" =>
          /\ req[r].kind = "deploy" /\ req[r].pc = "done" /\ req[r].resp = 500
          /\ req[r].build = "none" /\ req[r].relaunch = "none"
          /\ req[r].steps = <<"CREATE", "FETCH", "FINALIZE">>
          /\ Len(req[r].logs) = 1
          /\ req[r].logs[1] \in FetchMessages \ FetchConfirmations
          /\ Record(r).status = "failed"
          /\ Record(r).log = req[r].logs[1])
  /\ [][\A r \in Reqs :
          (req[r].fetch # "fail" /\ req'[r].fetch = "fail")
            => (images' = images /\ containers' = containers)]_vars

\* C23 witness: a redeployment whose pull failed, the bot still running the
\* container of the earlier deployment.
C23_Witness ==
  \E r \in Reqs :
    /\ req[r].fetch = "fail"
    /\ Record(r).log = "Git pull failed:"
    /\ get_bot_status(req[r].bot) = "Running"

\* the container of last.bot was running when the last call was made
WasRunning ==
  /\ last.prev.op \in {"run", "restart"}
  /\ last.prev.bot = last.bot
  /\ last.prev.success

StopFailedText == "Failed to stop container: Failed to stop container: " \o StrE
RunFailedText  == "Restarted: Failed to run container: " \o StrE

\* what a failed restart_bot_container leaves behind when its stop failed:
\* the run was not attempted, the old container is still there
StopFailureKeepsOld ==
  /\ last.o = "get_error/ok"
       => (~last.success /\ ~last.changed /\ last.message = StopFailedText)
  /\ (WasRunning /\ last.o = "stop_error/ok")
       => /\ ~last.success /\ ~last.changed /\ last.message = StopFailedText
          /\ LastContainer.status = "running"
  /\ (WasRunning /\ last.o = "remove_error/ok")
       => /\ ~last.success /\ last.message = StopFailedText
          /\ LastContainer.status = "exited"

\* C24 as claimed: after a restart whose stop succeeded and whose run failed
\* the bot has no container and its status is Stopped.
C24_FailedRunLeavesNoContainer ==
  (docker_client /\ last.op = "restart") =>
    /\ StopFailureKeepsOld
    /\ ~last.success =>
         /\ last.message \in {StopFailedText, RunFailedText}
         /\ last.message = RunFailedText
              => /\ LastContainer = NoContainer
                 /\ get_bot_status(last.bot) = "Stopped"

\* C24 as amended: after a restart whose stop succeeded and whose run failed
\* the bot has no running container, even if it was running before: none at
\* all (Stopped), or one created and never started (Stopped (created)) when
\* the engine created it and then failed to start it; when the stop failed
\* the run was not attempted and failure is returned.
C24_FailedRunLeavesNoneRunning ==
  (docker_client /\ last.op = "restart") =>
    /\ StopFailureKeepsOld
    /\ ~last.success =>
         /\ last.message \in {StopFailedText, RunFailedText}
         /\ last.message = RunFailedText
              => /\ LastContainer.status \in {"absent", "created"}
                 /\ get_bot_status(last.bot)
                      \in {"Stopped", "Stopped (created)"}
                 /\ WasRunning => last.changed

\* C24 witness: a bot that was running, restarted with a run that failed:
\* its container is gone.
C24_Witness ==
  /\ docker_client /\ WasRunning
  /\ last.op = "restart" /\ last.message = RunFailedText
  /\ get_bot_status(last.bot) = "Stopped"

\* upload_bot_code returned without having reached build_bot_image
RaisedBeforeBuild(r) ==
  /\ req[r].kind = "upload" /\ Started(r)
  /\ req[r].pc = "done" /\ req[r].build = "none"

\* C25: an upload deployment that raised while saving the archive, clearing
\* the directory or extracting is committed as failed with a transcript
\* ending in an "Error: ..." entry, without build or relaunch; none of its
\* steps changes an image or a container; and when it raised at extraction
\* the code directory holds nothing of its previous contents at the return.
C25_UploadFailureAborts ==
  /\ [](\A r \in Reqs : RaisedBeforeBuild(r) =>
          /\ Record(r).status = "failed"
          /\ Record(r).log = JoinLines(req[r].logs)
          /\ req[r].logs[Len(req[r].logs)] = "Error: " \o StrE
          /\ req[r].relaunch = "none"
          /\ req[r].steps \in {<<"CREATE", "FINALIZE">>,
                               <<"CREATE", "SAVE", "FINALIZE">>,
                               <<"CREATE", "SAVE", "CLEAR", "FINALIZE">>})
  /\ [][\A r \in Reqs :
          (/\ req'[r].kind = "upload" /\ req'[r] # req[r]
           /\ req'[r].build = "none")
            => (images' = images /\ containers' = containers)]_vars
  /\ [][\A r \in Reqs :
          (/\ req[r].kind = "upload" /\ req[r].pc = "finalize"
           /\ req'[r].pc = "done"
           /\ req[r].steps = <<"CREATE", "SAVE", "CLEAR">>)
            => codeDir'[req[r].bot]
                 \in {EmptyDir, [EmptyDir EXCEPT !.src = "partial"]}]_vars

\* C25 witness: an upload that failed at extraction, for a bot deployed from
\* its repository before: the clone is gone, the container still runs.
C25_Witness ==
  \E r \in Reqs :
    /\ RaisedBeforeBuild(r)
    /\ req[r].steps = <<"CREATE", "SAVE", "CLEAR", "FINALIZE">>
    /\ ~codeDir[req[r].bot].git
    /\ images[get_image_name(req[r].bot)] > 0
    /\ get_bot_status(req[r].bot) = "Running"


(* ===================== properties of the naming scheme ================ *)
MaxId == 12         \* largest bot id the naming scheme is checked for

Ids == 0..MaxId

\* C22: get_container_name and get_image_name are functions of the bot id
\* alone, "bot_" + id and "bot_" + id + ":latest", and two different ids
\* never get the same container name or the same image name, so the engine
\* holds one container entry and one image tag for every bot.
C22_NamesInjective ==
  /\ \A i, j \in Ids :
       /\ get_container_name(i) = "bot_" \o ToString(i)
       /\ get_image_name(i) = get_container_name(i) \o ":latest"
       /\ i # j => /\ get_container_name(i) # get_container_name(j)
                   /\ get_image_name(i) # get_image_name(j)
  /\ Cardinality(DOMAIN containers) = NumBots
  /\ Cardinality(DOMAIN images) = NumBots

\* C22 witness: the two bots' containers, found under their two names, in
\* different states, each on its own image.
C22_Witness ==
  /\ containers[get_container_name(1)].status = "running"
  /\ containers[get_container_name(2)].status = "exited"
  /\ images[get_image_name(1)] > 0 /\ images[get_image_name(2)] > 0


(* ================= properties of the environment table ================ *)
\* the pairs a form submits: rows with both fields and a key that is not blank
Submitted(form) ==
  {[key |-> strip(form[i].key), value |-> form[i].value] :
     i \in {k \in 1..Len(form) : Accepted(form[k])}}

\* C21: after update_env_vars the bot's rows are exactly the submitted
\* pairs, every key is non-empty, no key occurs in two rows of the bot, and
\* the rows of every other bot are as they were.
C21_EnvReplacedWholesale ==
  /\ [](env_req.resp = 303 =>
          LET rows == env_vars[env_req.bot] IN
          /\ {rows[i] : i \in 1..Len(rows)} = Submitted(env_req.form)
          /\ \A i \in 1..Len(rows) : rows[i].key # ""
          /\ \A i, j \in 1..Len(rows) : i # j => rows[i].key # rows[j].key)
  /\ [][\A b \in Bots : b # env_req'.bot => env_vars'[b] = env_vars[b]]_vars

====
